---- MODULE Spec2Model ----
(***************************************************************************)
(* Model of libmin-heap-sw: a fixed-capacity binary min-heap over          *)
(* type-erased elements whose buffer is obtained once from an arena        *)
(* allocator (src/src/min-heap-api.c, src/include/min-heap.h).             *)
(*                                                                         *)
(* Memory is modelled word by word: an element is data_size consecutive    *)
(* words, every copy is a memcpy of data_size words, and the comparator    *)
(* reads the words of the two elements it is handed.  Two element types    *)
(* of the test suite are modelled: int (one word, min_heap_compare_int)    *)
(* and Point (two words x, y, min_heap_compare_point, which orders by      *)
(* x*x + y*y, so distinct points can compare equal).                       *)
(***************************************************************************)
EXTENDS Integers, Sequences, FiniteSets

(* ------------------------------ bounds -------------------------------- *)

\* capacity of the modelled heap of ints
MaxCap == 6
\* capacity of the modelled heap of Points
PointCap == 2
\* capacity of each of two heaps that share one arena
SharedCap == 2
\* capacity of the heap of ints that is cleared and of the fresh heap beside it
TwinCap == 4
\* capacity of the heap of ints whose slots are set by hand
LayoutCap == 7
\* the values an int item takes
IntKeys == {0, 1}
\* the coordinates a Point item is built from
Coords == {0, 1}

(* ----------------------------- constants ------------------------------ *)

\* The null data pointer; addresses of mem start at 1.
NULL == 0
\* The null function pointer.
NULL_FN == "NULL"

MIN_HEAP_OK == "MIN_HEAP_OK"
MIN_HEAP_NULL_POINTER == "MIN_HEAP_NULL_POINTER"
MIN_HEAP_EMPTY == "MIN_HEAP_EMPTY"
MIN_HEAP_FULL == "MIN_HEAP_FULL"
MIN_HEAP_OUT_OF_BOUNDS == "MIN_HEAP_OUT_OF_BOUNDS"

\* size_t arithmetic wraps; the model keeps 16 bits of it
SIZE_MOD == 2 ^ 16

\* sizeof(int) and sizeof(Point), in words
SizeofInt == 1
SizeofPoint == 2

\* The element types: the size of one element, the capacity the heap is
\* declared with, the comparator and the items a caller can pass.
Types == {"int", "point"}
Sizeof(t) == IF t = "int" THEN SizeofInt ELSE SizeofPoint
CapOf(t) == IF t = "int" THEN MaxCap ELSE PointCap
TypeOfSize(ds) == IF ds = SizeofInt THEN "int" ELSE "point"
Items(t) ==
  IF t = "int" THEN {<<k>> : k \in IntKeys}
  ELSE {<<x, y>> : x \in Coords, y \in Coords}

\* The words of memory the model keeps: the block of the largest heap and
\* the element-sized region right behind it.
MaxOf(a, b) == IF a >= b THEN a ELSE b
MemWords == MaxOf((MaxCap + 1) * SizeofInt, (PointCap + 1) * SizeofPoint)

\* The words kept when the arena serves two heaps of ints: the two blocks and
\* the element-sized region behind the second.
SharedWords == (2 * SharedCap + 1) * SizeofInt

(* --------------------------- the comparators -------------------------- *)

Sign(a, b) == IF a < b THEN -1 ELSE IF a = b THEN 0 ELSE 1

min_heap_compare_int(f, s) == Sign(f[1], s[1])

min_heap_compare_point(f, s) ==
  Sign(f[1] * f[1] + f[2] * f[2], s[1] * s[1] + s[2] * s[2])

\* heap->compare(a, b): the call through the stored function pointer
Compare(cmp, a, b) ==
  IF cmp = "int" THEN min_heap_compare_int(a, b) ELSE min_heap_compare_point(a, b)

(* ------------------------------- state -------------------------------- *)

VARIABLES
  heap,   \* the MinHeapInterface structure
  mem,    \* the words of memory the arena hands blocks out of
  arena,  \* the blocks the arena has handed out, in order
  out,    \* the caller's out variable
  op,     \* the operation called last
  arg,    \* its arguments
  ret,    \* what it returned
  wr,     \* the addresses it wrote in mem
  net,    \* successful inserts minus successful removes since size was set to 0
  log,    \* what it did: its swaps, calls of the comparator and copies, in order
  second, \* the caller's second heap: its structure, out variable and last result
  drain,  \* the caller's draining loop: where it is and what it has printed
  trip    \* the caller's insert, find, remove in a row: where it is, the item
          \* inserted, the elements stored before and the index find returned

vars == <<heap, mem, arena, out, op, arg, ret, wr, net, log, second, drain, trip>>

(* ------------------------- memory primitives -------------------------- *)

\* A store: the memory, the set of addresses written so far in a call, and the
\* log of what the call has done so far: its swaps, its calls of the comparator
\* and its copies of an element in or out, each with the addresses of the
\* elements it was handed.
St(m, w) == [m |-> m, wr |-> w, log |-> <<>>]

\* One more step in the log of a call.
Logged(st, k, a, b) == [st EXCEPT !.log = Append(@, [k |-> k, a |-> a, b |-> b])]

\* base + i * data_size
Addr(h, i) == h.data + i * h.data_size

\* the data_size words at address a, read as one element
Load(m, a, n) == [k \in 1..n |-> m[a + k - 1]]

\* memcpy(dst, src, n) between two places of mem
Memcpy(st, dst, src, n) ==
  [st EXCEPT !.m = [a \in DOMAIN st.m |->
                      IF a >= dst /\ a < dst + n THEN st.m[src + (a - dst)] ELSE st.m[a]],
             !.wr = @ \cup {dst + k : k \in 0..(n - 1)}]

\* the copy of the item, one word short
MemcpyIn_OneWordShort(st, dst, item, n) ==
  [st EXCEPT !.m = [a \in DOMAIN st.m |->
                      IF a >= dst /\ a < dst + n - 1 THEN item[a - dst + 1] ELSE st.m[a]],
             !.wr = @ \cup {dst + k : k \in 0..(n - 2)}]

\* memcpy(dst, item, n) from the caller's item into mem
MemcpyIn(st, dst, item, n) ==
  [st EXCEPT !.m = [a \in DOMAIN st.m |->
                      IF a >= dst /\ a < dst + n THEN item[a - dst + 1] ELSE st.m[a]],
             !.wr = @ \cup {dst + k : k \in 0..(n - 1)}]

MIN_HEAP_PARENT(I) == ((I - 1) % SIZE_MOD) \div 2
MIN_HEAP_CHILD_L(I) == (I * 2 + 1) % SIZE_MOD
MIN_HEAP_CHILD_R(I) == (I * 2 + 2) % SIZE_MOD

\* _min_heap_swap without the copy of b into a
min_heap_swap_NoCopyIntoA(h, st, a, b) ==
  LET aux == h.data + h.capacity * h.data_size
      s1 == Memcpy(st, aux, a, h.data_size)
  IN Memcpy(s1, b, aux, h.data_size)

\* _min_heap_swap: a and b are exchanged through the element-sized region
\* that starts at data + capacity * data_size.  That region lies behind the
\* capacity slots init asks the arena for; the model keeps the words there
\* (mem reaches one element past the block), so the three copies act on them
\* as on any memory, and wr records that they were written.
min_heap_swap(h, st, a, b) ==
  LET aux == h.data + h.capacity * h.data_size
      s1 == Memcpy(Logged(st, "swap", a, b), aux, a, h.data_size)
      s2 == Memcpy(s1, a, b, h.data_size)
  IN Memcpy(s2, b, aux, h.data_size)

\* heap->compare on the elements at indices i and j
CompareAt(h, m, i, j) ==
  Compare(h.compare, Load(m, Addr(h, i), h.data_size), Load(m, Addr(h, j), h.data_size))

\* The store once heap->compare has been called on the elements at i and j.
Called(h, st, i, j) == Logged(st, "compare", Addr(h, i), Addr(h, j))


(* ----------------------------- the arena ------------------------------ *)

\* The first address the arena has not handed out.
ArenaCursor(ar) == IF ar = <<>> THEN 1 ELSE ar[Len(ar)].base + ar[Len(ar)].len

\* arena_allocator_api_calloc(arena, size, count): a zeroed block of
\* size * count contiguous words at the cursor, or NULL when the arena cannot
\* provide it (fits = FALSE).
arena_allocator_api_calloc(ar, m, size, count, fits) ==
  LET base == ArenaCursor(ar)
      len == size * count
  IN IF fits /\ base + len - 1 \in DOMAIN m
     THEN [ptr |-> base,
           arena |-> Append(ar, [base |-> base, len |-> len]),
           m |-> [a \in DOMAIN m |-> IF a >= base /\ a < base + len THEN 0 ELSE m[a]]]
     ELSE [ptr |-> NULL, arena |-> ar, m |-> m]

(* --------------------------- the operations --------------------------- *)

\* What a call leaves behind: the heap structure, the store, the caller's
\* out variable, the arena and the value returned.
Res(h, st, o, ar, r) == [heap |-> h, st |-> st, out |-> o, arena |-> ar, ret |-> r]

\* min_heap_new(TYPE, CAPACITY, CMP_CALLBACK)
min_heap_new(t, cmp) ==
  [data_size |-> Sizeof(t), size |-> 0, capacity |-> CapOf(t), compare |-> cmp,
   data |-> NULL]

\* _min_heap_init without the check of compare
min_heap_init_NoCompareCheck(h, m, ar, o, hp, data_size, capacity, compare, ap, fits) ==
  IF ~hp \/ ~ap
  THEN Res(h, St(m, {}), o, ar, MIN_HEAP_NULL_POINTER)
  ELSE LET a == arena_allocator_api_calloc(ar, m, data_size, capacity, fits)
           h1 == [data_size |-> data_size, size |-> 0, capacity |-> capacity,
                  compare |-> compare, data |-> a.ptr]
       IN Res(h1, St(a.m, {}), o, a.arena,
              IF a.ptr = NULL THEN MIN_HEAP_NULL_POINTER ELSE MIN_HEAP_OK)

\* _min_heap_init; hp and ap tell whether heap and arena are non-NULL
min_heap_init(h, m, ar, o, hp, data_size, capacity, compare, ap, fits) ==
  IF ~hp \/ compare = NULL_FN \/ ~ap
  THEN Res(h, St(m, {}), o, ar, MIN_HEAP_NULL_POINTER)
  ELSE LET a == arena_allocator_api_calloc(ar, m, data_size, capacity, fits)
           h1 == [data_size |-> data_size, size |-> 0, capacity |-> capacity,
                  compare |-> compare, data |-> a.ptr]
       IN Res(h1, St(a.m, {}), o, a.arena,
              IF a.ptr = NULL THEN MIN_HEAP_NULL_POINTER ELSE MIN_HEAP_OK)

\* _min_heap_top copying the last stored element instead of the first
min_heap_top_Last(h, m, ar, o, hp, outp) ==
  IF ~hp \/ ~outp \/ h.data = NULL
  THEN Res(h, St(m, {}), o, ar, MIN_HEAP_NULL_POINTER)
  ELSE IF h.size = 0
  THEN Res(h, St(m, {}), o, ar, MIN_HEAP_EMPTY)
  ELSE Res(h, St(m, {}), Load(m, Addr(h, h.size - 1), h.data_size), ar, MIN_HEAP_OK)

\* _min_heap_top without the check of size
min_heap_top_NoEmptyCheck(h, m, ar, o, hp, outp) ==
  IF ~hp \/ ~outp \/ h.data = NULL
  THEN Res(h, St(m, {}), o, ar, MIN_HEAP_NULL_POINTER)
  ELSE Res(h, St(m, {}), Load(m, h.data, h.data_size), ar, MIN_HEAP_OK)

\* _min_heap_top taking the element out of the heap
min_heap_top_Pop(h, m, ar, o, hp, outp) ==
  IF ~hp \/ ~outp \/ h.data = NULL
  THEN Res(h, St(m, {}), o, ar, MIN_HEAP_NULL_POINTER)
  ELSE IF h.size = 0
  THEN Res(h, St(m, {}), o, ar, MIN_HEAP_EMPTY)
  ELSE Res([h EXCEPT !.size = h.size - 1], St(m, {}), Load(m, h.data, h.data_size), ar,
           MIN_HEAP_OK)

\* _min_heap_top; outp tells whether out is non-NULL
min_heap_top(h, m, ar, o, hp, outp) ==
  IF ~hp \/ ~outp \/ h.data = NULL
  THEN Res(h, St(m, {}), o, ar, MIN_HEAP_NULL_POINTER)
  ELSE IF h.size = 0
  THEN Res(h, St(m, {}), o, ar, MIN_HEAP_EMPTY)
  ELSE Res(h, St(m, {}), Load(m, h.data, h.data_size), ar, MIN_HEAP_OK)

\* _min_heap_clear without the reset of size
min_heap_clear_KeepSize(h, m, ar, o, hp) ==
  IF ~hp
  THEN Res(h, St(m, {}), o, ar, MIN_HEAP_NULL_POINTER)
  ELSE Res(h, St(m, {}), o, ar, MIN_HEAP_OK)

\* _min_heap_clear
\* _min_heap_clear that also zeroes the buffer
min_heap_clear_ZeroBuffer(h, m, ar, o, hp) ==
  IF ~hp
  THEN Res(h, St(m, {}), o, ar, MIN_HEAP_NULL_POINTER)
  ELSE LET words == {a \in DOMAIN m : a >= h.data /\ a < h.data + h.capacity * h.data_size}
       IN Res([h EXCEPT !.size = 0],
              St([a \in DOMAIN m |-> IF a \in words THEN 0 ELSE m[a]], words),
              o, ar, MIN_HEAP_OK)

min_heap_clear(h, m, ar, o, hp) ==
  IF ~hp
  THEN Res(h, St(m, {}), o, ar, MIN_HEAP_NULL_POINTER)
  ELSE Res([h EXCEPT !.size = 0], St(m, {}), o, ar, MIN_HEAP_OK)

\* The up-heapify loop of _min_heap_insert and _min_heap_remove: while cur is
\* not the root and compares less than its parent, swap them and go up.
\* The up-heapify loop swapping also when the element equals its parent
RECURSIVE UpHeapify_SwapOnEqual(_, _, _)
UpHeapify_SwapOnEqual(h, st, cur) ==
  LET parent == MIN_HEAP_PARENT(cur)
      s1 == Called(h, st, cur, parent)
  IN IF cur = 0 THEN st
     ELSE IF CompareAt(h, st.m, cur, parent) <= 0
     THEN UpHeapify_SwapOnEqual(h, min_heap_swap(h, s1, Addr(h, cur), Addr(h, parent)), parent)
     ELSE s1

RECURSIVE UpHeapify(_, _, _)
UpHeapify(h, st, cur) ==
  LET parent == MIN_HEAP_PARENT(cur)
      s1 == Called(h, st, cur, parent)
  IN IF cur = 0 THEN st
     ELSE IF CompareAt(h, st.m, cur, parent) < 0
     THEN UpHeapify(h, min_heap_swap(h, s1, Addr(h, cur), Addr(h, parent)), parent)
     ELSE s1

\* _min_heap_insert with size > capacity as its check of fullness
min_heap_insert_FullOffByOne(h, m, ar, o, hp, ip, item) ==
  IF ~hp \/ ~ip \/ h.compare = NULL_FN \/ h.data = NULL
  THEN Res(h, St(m, {}), o, ar, MIN_HEAP_NULL_POINTER)
  ELSE IF h.size > h.capacity
  THEN Res(h, St(m, {}), o, ar, MIN_HEAP_FULL)
  ELSE LET cur == h.size
           s1 == MemcpyIn(St(m, {}), Addr(h, cur), item, h.data_size)
           h1 == [h EXCEPT !.size = h.size + 1]
       IN Res(h1, UpHeapify(h1, s1, cur), o, ar, MIN_HEAP_OK)

\* _min_heap_insert without the ++heap->size
min_heap_insert_NoIncrement(h, m, ar, o, hp, ip, item) ==
  IF ~hp \/ ~ip \/ h.compare = NULL_FN \/ h.data = NULL
  THEN Res(h, St(m, {}), o, ar, MIN_HEAP_NULL_POINTER)
  ELSE IF h.size = h.capacity
  THEN Res(h, St(m, {}), o, ar, MIN_HEAP_FULL)
  ELSE LET cur == h.size
           s1 == MemcpyIn(St(m, {}), Addr(h, cur), item, h.data_size)
       IN Res(h, UpHeapify([h EXCEPT !.size = h.size + 1], s1, cur), o, ar, MIN_HEAP_OK)

\* _min_heap_insert asking the arena for one more element on each success
min_heap_insert_AllocCell(h, m, ar, o, hp, ip, item) ==
  IF ~hp \/ ~ip \/ h.compare = NULL_FN \/ h.data = NULL
  THEN Res(h, St(m, {}), o, ar, MIN_HEAP_NULL_POINTER)
  ELSE IF h.size = h.capacity
  THEN Res(h, St(m, {}), o, ar, MIN_HEAP_FULL)
  ELSE LET cur == h.size
           s1 == MemcpyIn(St(m, {}), Addr(h, cur), item, h.data_size)
           h1 == [h EXCEPT !.size = h.size + 1]
           a == arena_allocator_api_calloc(ar, m, h.data_size, 1, TRUE)
       IN Res(h1, UpHeapify(h1, s1, cur), o, a.arena, MIN_HEAP_OK)

\* _min_heap_insert without the check of data
min_heap_insert_NoDataCheck(h, m, ar, o, hp, ip, item) ==
  IF ~hp \/ ~ip \/ h.compare = NULL_FN
  THEN Res(h, St(m, {}), o, ar, MIN_HEAP_NULL_POINTER)
  ELSE IF h.size = h.capacity
  THEN Res(h, St(m, {}), o, ar, MIN_HEAP_FULL)
  ELSE LET cur == h.size
           s1 == MemcpyIn(St(m, {}), Addr(h, cur), item, h.data_size)
           h1 == [h EXCEPT !.size = h.size + 1]
       IN Res(h1, UpHeapify(h1, s1, cur), o, ar, MIN_HEAP_OK)

\* _min_heap_insert; ip tells whether item is non-NULL
min_heap_insert(h, m, ar, o, hp, ip, item) ==
  IF ~hp \/ ~ip \/ h.compare = NULL_FN \/ h.data = NULL
  THEN Res(h, St(m, {}), o, ar, MIN_HEAP_NULL_POINTER)
  ELSE IF h.size = h.capacity
  THEN Res(h, St(m, {}), o, ar, MIN_HEAP_FULL)
  ELSE LET cur == h.size
           s1 == MemcpyIn(Logged(St(m, {}), "copy_in", Addr(h, cur), Addr(h, cur)),
                          Addr(h, cur), item, h.data_size)
           h1 == [h EXCEPT !.size = h.size + 1]
       IN Res(h1, UpHeapify(h1, s1, cur), o, ar, MIN_HEAP_OK)

\* The choice of the child without the comparison of the two children
SmallerChild_AlwaysLeft(h, st, l, r) == [st |-> st, child |-> l]

\* The child the down-heapify of _min_heap_remove looks at: the left one when
\* there is no right one below size, else the smaller (the right one on a tie).
\* Yields the child and the store, in which the comparison is logged.
\* The choice of the child with the capacity as the bound of the right child
SmallerChild_BoundByCapacity(h, st, l, r) ==
  IF r >= h.capacity THEN [st |-> st, child |-> l]
  ELSE [st |-> Called(h, st, l, r),
        child |-> IF CompareAt(h, st.m, l, r) < 0 THEN l ELSE r]

SmallerChild(h, st, l, r) ==
  IF r >= h.size THEN [st |-> st, child |-> l]
  ELSE [st |-> Called(h, st, l, r),
        child |-> IF CompareAt(h, st.m, l, r) < 0 THEN l ELSE r]

\* The down-heapify loop left before its first pass
DownHeapifyLoop_NoPass(h, st, index) ==
  LET c == SmallerChild(h, st, MIN_HEAP_CHILD_L(index), MIN_HEAP_CHILD_R(index))
  IN [st |-> c.st, index |-> index, l |-> MIN_HEAP_CHILD_L(index), child |-> c.child]

\* The down-heapify loop of _min_heap_remove: while the node has a right child
\* below size and the chosen child compares less than the node, swap them and
\* go down.  Yields the store and the values index, l and child end with.
RECURSIVE DownHeapifyLoop(_, _, _)
DownHeapifyLoop(h, st, index) ==
  LET l == MIN_HEAP_CHILD_L(index)
      r == MIN_HEAP_CHILD_R(index)
      c == SmallerChild(h, st, l, r)
      child == c.child
      s1 == Called(h, c.st, child, index)
  IN IF r >= h.size
     THEN [st |-> c.st, index |-> index, l |-> l, child |-> child]
     ELSE IF CompareAt(h, st.m, child, index) < 0
     THEN DownHeapifyLoop(h, min_heap_swap(h, s1, Addr(h, index), Addr(h, child)), child)
     ELSE [st |-> s1, index |-> index, l |-> l, child |-> child]

\* The down-heapify branch of _min_heap_remove: the loop, then the check of
\* the left child.
DownHeapify(h, st, index) ==
  LET d == DownHeapifyLoop(h, st, index)
      s1 == Called(h, d.st, d.l, d.index)
  IN IF d.l >= h.size THEN d.st
     ELSE IF CompareAt(h, d.st.m, d.l, d.index) < 0
     THEN min_heap_swap(h, s1, Addr(h, d.index), Addr(h, d.child))
     ELSE s1

\* The restoring of the heap properties left out after the comparison
Reheapify_Never(h, st, index) == Called(h, st, index, h.size)

\* The restoring of the heap properties with the down-heapify run whatever the
\* comparison gives
Reheapify_AlwaysDown(h, st, index) ==
  DownHeapify(h, Called(h, st, index, h.size), index)

\* The part of _min_heap_remove that restores the heap properties; h holds
\* the decremented size, so index h.size is where the removed element lies.
Reheapify(h, st, index) ==
  LET cmp == CompareAt(h, st.m, index, h.size)
      s1 == Called(h, st, index, h.size)
  IN IF cmp < 0 THEN UpHeapify(h, s1, index)
     ELSE IF cmp > 0 THEN DownHeapify(h, s1, index)
     ELSE s1

\* _min_heap_remove with the element copied to out before the swap
min_heap_remove_CopyBeforeSwap(h, m, ar, o, hp, index, outp) ==
  IF ~hp \/ h.compare = NULL_FN
  THEN Res(h, St(m, {}), o, ar, MIN_HEAP_NULL_POINTER)
  ELSE IF h.size = 0
  THEN Res(h, St(m, {}), o, ar, MIN_HEAP_EMPTY)
  ELSE IF index >= h.size
  THEN Res(h, St(m, {}), o, ar, MIN_HEAP_OUT_OF_BOUNDS)
  ELSE LET s1 == IF h.size > 1
                 THEN min_heap_swap(h, St(m, {}), Addr(h, index), Addr(h, h.size - 1))
                 ELSE St(m, {})
           h1 == [h EXCEPT !.size = h.size - 1]
           o1 == IF outp THEN Load(m, Addr(h1, h1.size), h1.data_size) ELSE o
       IN IF index = h1.size
          THEN Res(h1, s1, o1, ar, MIN_HEAP_OK)
          ELSE Res(h1, Reheapify(h1, s1, index), o1, ar, MIN_HEAP_OK)

\* _min_heap_remove with index > size as its bounds check
min_heap_remove_BoundsOffByOne(h, m, ar, o, hp, index, outp) ==
  IF ~hp \/ h.compare = NULL_FN
  THEN Res(h, St(m, {}), o, ar, MIN_HEAP_NULL_POINTER)
  ELSE IF h.size = 0
  THEN Res(h, St(m, {}), o, ar, MIN_HEAP_EMPTY)
  ELSE IF index > h.size
  THEN Res(h, St(m, {}), o, ar, MIN_HEAP_OUT_OF_BOUNDS)
  ELSE LET s1 == IF h.size > 1
                 THEN min_heap_swap(h, St(m, {}), Addr(h, index), Addr(h, h.size - 1))
                 ELSE St(m, {})
           h1 == [h EXCEPT !.size = h.size - 1]
           o1 == IF outp THEN Load(s1.m, Addr(h1, h1.size), h1.data_size) ELSE o
       IN IF index = h1.size
          THEN Res(h1, s1, o1, ar, MIN_HEAP_OK)
          ELSE Res(h1, Reheapify(h1, s1, index), o1, ar, MIN_HEAP_OK)

\* _min_heap_remove; outp tells whether out is non-NULL
min_heap_remove(h, m, ar, o, hp, index, outp) ==
  IF ~hp \/ h.compare = NULL_FN
  THEN Res(h, St(m, {}), o, ar, MIN_HEAP_NULL_POINTER)
  ELSE IF h.size = 0
  THEN Res(h, St(m, {}), o, ar, MIN_HEAP_EMPTY)
  ELSE IF index >= h.size
  THEN Res(h, St(m, {}), o, ar, MIN_HEAP_OUT_OF_BOUNDS)
  ELSE LET s1 == IF h.size > 1
                 THEN min_heap_swap(h, St(m, {}), Addr(h, index), Addr(h, h.size - 1))
                 ELSE St(m, {})
           h1 == [h EXCEPT !.size = h.size - 1]
           o1 == IF outp THEN Load(s1.m, Addr(h1, h1.size), h1.data_size) ELSE o
           s2 == IF outp
                 THEN Logged(s1, "copy_out", Addr(h1, h1.size), Addr(h1, h1.size))
                 ELSE s1
       IN IF index = h1.size
          THEN Res(h1, s2, o1, ar, MIN_HEAP_OK)
          ELSE Res(h1, Reheapify(h1, s2, index), o1, ar, MIN_HEAP_OK)

\* _min_heap_size returning the capacity
min_heap_size_Capacity(h, m, ar, o, hp) ==
  Res(h, St(m, {}), o, ar, IF ~hp THEN 0 ELSE h.capacity)

\* _min_heap_size
min_heap_size(h, m, ar, o, hp) ==
  Res(h, St(m, {}), o, ar, IF ~hp THEN 0 ELSE h.size)

\* _min_heap_is_empty
min_heap_is_empty(h, m, ar, o, hp) ==
  Res(h, St(m, {}), o, ar, IF ~hp THEN TRUE ELSE h.size = 0)

\* _min_heap_is_full with size > capacity as its comparison
min_heap_is_full_Strict(h, m, ar, o, hp) ==
  Res(h, St(m, {}), o, ar, IF ~hp THEN TRUE ELSE h.size > h.capacity)

\* _min_heap_is_full
min_heap_is_full(h, m, ar, o, hp) ==
  Res(h, St(m, {}), o, ar, IF ~hp THEN TRUE ELSE h.size >= h.capacity)

\* _min_heap_peek without the check of size
min_heap_peek_NoEmptyCheck(h, m, ar, o, hp) ==
  Res(h, St(m, {}), o, ar, IF ~hp THEN NULL ELSE h.data)

\* _min_heap_peek: the address of the first slot, not a copy of it
min_heap_peek(h, m, ar, o, hp) ==
  Res(h, St(m, {}), o, ar, IF ~hp \/ h.size = 0 THEN NULL ELSE h.data)

\* The loop of _min_heap_find: the first index from i on, below bound, whose
\* element the comparator, handed the item first, finds equal to it; -1 when
\* there is none.  Yields the index and the store, in which each call of the
\* comparator is logged with the address of the element it was handed.
RECURSIVE FindLoop(_, _, _, _, _)
FindLoop(h, st, item, i, bound) ==
  LET s1 == Logged(st, "compare_item", Addr(h, i), Addr(h, i))
  IN IF i >= bound THEN [i |-> -1, st |-> st]
     ELSE IF Compare(h.compare, item, Load(st.m, Addr(h, i), h.data_size)) = 0
     THEN [i |-> i, st |-> s1]
     ELSE FindLoop(h, s1, item, i + 1, bound)

\* _min_heap_find with the capacity as the bound of its loop
min_heap_find_ScanCapacity(h, m, ar, o, hp, ip, item) ==
  IF ~hp \/ ~ip \/ h.compare = NULL_FN \/ h.size = 0 \/ h.data = NULL
  THEN Res(h, St(m, {}), o, ar, -1)
  ELSE LET f == FindLoop(h, St(m, {}), item, 0, h.capacity)
       IN Res(h, f.st, o, ar, f.i)

\* _min_heap_find with its loop begun at index 1
min_heap_find_FromOne(h, m, ar, o, hp, ip, item) ==
  IF ~hp \/ ~ip \/ h.compare = NULL_FN \/ h.size = 0 \/ h.data = NULL
  THEN Res(h, St(m, {}), o, ar, -1)
  ELSE LET f == FindLoop(h, St(m, {}), item, 1, h.size)
       IN Res(h, f.st, o, ar, f.i)

\* _min_heap_find; ip tells whether item is non-NULL
min_heap_find(h, m, ar, o, hp, ip, item) ==
  IF ~hp \/ ~ip \/ h.compare = NULL_FN \/ h.size = 0 \/ h.data = NULL
  THEN Res(h, St(m, {}), o, ar, -1)
  ELSE LET f == FindLoop(h, St(m, {}), item, 0, h.size)
       IN Res(h, f.st, o, ar, f.i)

(* ------------------------------ the calls ----------------------------- *)

\* The arguments of a call, as the caller passed them.
NoItem == <<>>
Arg(hp, item, index, outp) == [hp |-> hp, item |-> item, index |-> index, outp |-> outp]

\* The arguments of a call of init; fits tells whether the arena can provide
\* the block.
InitArg(hp, data_size, capacity, compare, ap, fits) ==
  [hp |-> hp, data_size |-> data_size, capacity |-> capacity, compare |-> compare,
   ap |-> ap, fits |-> fits]

\* The element type the caller works with: the one the heap was declared for.
TypeOf(h) == TypeOfSize(h.data_size)

\* The comparators a caller can pass for its element type.
Comparators(t) == {t, NULL_FN}

\* The caller's second heap, as min_heap_new declares it beside the first
\* (int_heap and point_heap of the tests), with the out variable used with it
\* and the result of the last call made on it.
Second(h, o, r) == [heap |-> h, out |-> o, ret |-> r]

\* A call on the first heap returns: its result becomes the new state.
\* The draining loop before the caller has entered it.
NoDrain == [pc |-> "idle", outs |-> <<>>, codes |-> <<>>, start |-> <<>>]

\* The caller before it has begun its insert, find, remove in a row.
NoTrip == [pc |-> "idle", item |-> <<>>, before |-> <<>>, found |-> -1]

Return(name, a, r, n) ==
  /\ heap' = r.heap
  /\ mem' = r.st.m
  /\ arena' = r.arena
  /\ out' = r.out
  /\ op' = name
  /\ arg' = a
  /\ ret' = r.ret
  /\ wr' = r.st.wr
  /\ log' = r.st.log
  /\ net' = n
  /\ second' = second
  /\ drain' = drain
  /\ trip' = trip

Init ==
  /\ \E t \in Types : \E cmp \in Comparators(t) : heap = min_heap_new(t, cmp)
  /\ mem = [a \in 1..MemWords |-> 0]
  /\ arena = <<>>
  /\ out = [k \in 1..heap.data_size |-> 0]
  /\ op = "min_heap_new"
  /\ arg = Arg(TRUE, NoItem, 0, FALSE)
  /\ ret = MIN_HEAP_OK
  /\ wr = {}
  /\ net = 0
  /\ log = <<>>
  /\ second = Second(min_heap_new(TypeOf(heap), TypeOf(heap)), out, MIN_HEAP_OK)
  /\ drain = NoDrain
  /\ trip = NoTrip

\* The state before init when the memory of the arena has been used before:
\* its words hold anything.
DirtyInit ==
  /\ \E t \in Types : \E cmp \in Comparators(t) : heap = min_heap_new(t, cmp)
  /\ mem \in [1..MemWords -> {0, 1}]
  /\ arena = <<>>
  /\ out = [k \in 1..heap.data_size |-> 0]
  /\ op = "min_heap_new"
  /\ arg = Arg(TRUE, NoItem, 0, FALSE)
  /\ ret = MIN_HEAP_OK
  /\ wr = {}
  /\ net = 0
  /\ log = <<>>
  /\ second = Second(min_heap_new(TypeOf(heap), TypeOf(heap)), out, MIN_HEAP_OK)
  /\ drain = NoDrain
  /\ trip = NoTrip

\* The state a test of the suite starts a call in: setUp has initialized the
\* heap, and the test has then set size, the slots of the buffer, and in some
\* tests compare or data to NULL, by hand.
PokeInit ==
  \E t \in Types, dp \in BOOLEAN :
    \E cmp \in Comparators(t), n \in 0..CapOf(t), slots \in [0..(CapOf(t) - 1) -> Items(t)] :
      LET o == [k \in 1..Sizeof(t) |-> 0]
          r == min_heap_init(min_heap_new(t, t), [a \in 1..MemWords |-> 0], <<>>, o,
                             TRUE, Sizeof(t), CapOf(t), t, TRUE, TRUE)
      IN /\ heap = [r.heap EXCEPT !.size = n, !.compare = cmp,
                                  !.data = IF dp THEN @ ELSE NULL]
         /\ mem = [a \in DOMAIN r.st.m |->
                     IF a >= r.heap.data /\ a < r.heap.data + CapOf(t) * Sizeof(t)
                     THEN slots[(a - r.heap.data) \div Sizeof(t)]
                               [((a - r.heap.data) % Sizeof(t)) + 1]
                     ELSE r.st.m[a]]
         /\ arena = r.arena
         /\ out = o
         /\ op = "setUp"
         /\ arg = Arg(TRUE, NoItem, 0, FALSE)
         /\ ret = MIN_HEAP_OK
         /\ wr = {}
         /\ net = n
         /\ log = <<>>
         /\ second = Second(min_heap_new(t, t), o, MIN_HEAP_OK)
         /\ drain = NoDrain
         /\ trip = NoTrip

\* min_heap_init(heap, type, capacity, cmp_callback, arena).  The caller
\* initializes a heap once: the call is made while the heap has no buffer, and
\* can be made again after an init that failed.
CallInit ==
  /\ heap.data = NULL
  /\ \E hp \in BOOLEAN, ap \in BOOLEAN, fits \in BOOLEAN :
       \E cmp \in Comparators(TypeOf(heap)) :
         LET t == TypeOf(heap)
             r == min_heap_init(heap, mem, arena, out, hp, Sizeof(t), CapOf(t), cmp, ap, fits)
         IN Return("init", InitArg(hp, Sizeof(t), CapOf(t), cmp, ap, fits), r,
                   IF r.ret = MIN_HEAP_OK THEN 0 ELSE net)

\* The calls of insert a caller makes: every item on the heap, and one call
\* each with the heap or the item absent.
InsertCalls(t) ==
  {Arg(TRUE, item, 0, FALSE) : item \in Items(t)}
    \cup {Arg(FALSE, CHOOSE item \in Items(t) : TRUE, 0, FALSE), Arg(TRUE, NoItem, 0, FALSE)}

\* min_heap_insert(heap, item)
CallInsert ==
  \E a \in InsertCalls(TypeOf(heap)) :
    LET r == min_heap_insert(heap, mem, arena, out, a.hp, a.item # NoItem, a.item)
    IN Return("insert", a, r, IF r.ret = MIN_HEAP_OK THEN net + 1 ELSE net)

\* The calls of remove a caller makes: every index up to size + 1, with and
\* without out, and one call with the heap absent.
RemoveCalls(h) ==
  {Arg(TRUE, NoItem, index, outp) : index \in 0..(h.size + 1), outp \in BOOLEAN}
    \cup {Arg(FALSE, NoItem, 0, TRUE)}

\* min_heap_remove(heap, index, out)
CallRemove ==
  \E a \in RemoveCalls(heap) :
    LET r == min_heap_remove(heap, mem, arena, out, a.hp, a.index, a.outp)
    IN Return("remove", a, r, IF r.ret = MIN_HEAP_OK THEN net - 1 ELSE net)

\* min_heap_top(heap, out)
CallTop ==
  \E hp \in BOOLEAN, outp \in BOOLEAN :
    LET r == min_heap_top(heap, mem, arena, out, hp, outp)
    IN Return("top", Arg(hp, NoItem, 0, outp), r, net)

\* min_heap_clear(heap)
CallClear ==
  \E hp \in BOOLEAN :
    LET r == min_heap_clear(heap, mem, arena, out, hp)
    IN Return("clear", Arg(hp, NoItem, 0, FALSE), r,
              IF r.ret = MIN_HEAP_OK THEN 0 ELSE net)

\* min_heap_size(heap)
CallSize ==
  \E hp \in BOOLEAN :
    Return("size", Arg(hp, NoItem, 0, FALSE), min_heap_size(heap, mem, arena, out, hp), net)

\* min_heap_is_empty(heap)
CallIsEmpty ==
  \E hp \in BOOLEAN :
    Return("is_empty", Arg(hp, NoItem, 0, FALSE),
           min_heap_is_empty(heap, mem, arena, out, hp), net)

\* min_heap_is_full(heap)
CallIsFull ==
  \E hp \in BOOLEAN :
    Return("is_full", Arg(hp, NoItem, 0, FALSE),
           min_heap_is_full(heap, mem, arena, out, hp), net)

\* min_heap_peek(heap)
CallPeek ==
  \E hp \in BOOLEAN :
    Return("peek", Arg(hp, NoItem, 0, FALSE), min_heap_peek(heap, mem, arena, out, hp), net)

\* min_heap_find(heap, item); the calls are those of insert
CallFind ==
  \E a \in InsertCalls(TypeOf(heap)) :
    Return("find", a,
           min_heap_find(heap, mem, arena, out, a.hp, a.item # NoItem, a.item), net)

Next ==
  \/ CallInit \/ CallInsert \/ CallRemove \/ CallTop \/ CallClear
  \/ CallSize \/ CallIsEmpty \/ CallIsFull \/ CallPeek \/ CallFind

Spec == Init /\ [][Next]_vars


\* The state before the setUp of the tests: two heaps declared, here both of
\* ints, neither initialized, and a fresh arena.
SharedInit ==
  /\ heap = min_heap_new("int", "int")
  /\ mem = [a \in 1..SharedWords |-> 0]
  /\ arena = <<>>
  /\ out = [k \in 1..heap.data_size |-> 0]
  /\ op = "min_heap_new"
  /\ arg = Arg(TRUE, NoItem, 0, FALSE)
  /\ ret = MIN_HEAP_OK
  /\ wr = {}
  /\ net = 0
  /\ log = <<>>
  /\ second = Second(min_heap_new(TypeOf(heap), TypeOf(heap)), out, MIN_HEAP_OK)
  /\ drain = NoDrain
  /\ trip = NoTrip

\* setUp: the two heaps are initialized one after the other from the same
\* arena, so the block of the second starts where the block of the first ends.
SetUp ==
  /\ heap.data = NULL
  /\ LET t == TypeOf(heap)
         r1 == min_heap_init(heap, mem, arena, out, TRUE, Sizeof(t), SharedCap, t, TRUE, TRUE)
         r2 == min_heap_init(second.heap, r1.st.m, r1.arena, second.out, TRUE,
                             Sizeof(t), SharedCap, t, TRUE, TRUE)
     IN /\ heap' = r1.heap
        /\ second' = Second(r2.heap, r2.out, r2.ret)
        /\ drain' = drain
        /\ trip' = trip
        /\ mem' = r2.st.m
        /\ arena' = r2.arena
        /\ op' = "setUp"
        /\ arg' = Arg(TRUE, NoItem, 0, FALSE)
        /\ ret' = r2.ret
        /\ wr' = {}
        /\ log' = <<>>
        /\ UNCHANGED <<out, net>>

\* A call on the second heap returns: it acts on the same memory and arena.
ReturnSecond(name, a, r) ==
  /\ second' = Second(r.heap, r.out, r.ret)
  /\ drain' = drain
  /\ trip' = trip
  /\ mem' = r.st.m
  /\ arena' = r.arena
  /\ op' = name
  /\ arg' = a
  /\ ret' = r.ret
  /\ wr' = r.st.wr
  /\ log' = r.st.log
  /\ UNCHANGED <<heap, out, net>>

\* min_heap_insert(second heap, item)
SecondInsert ==
  \E a \in InsertCalls(TypeOf(second.heap)) :
    ReturnSecond("second_insert", a,
                 min_heap_insert(second.heap, mem, arena, second.out, a.hp,
                                 a.item # NoItem, a.item))

\* min_heap_remove(second heap, index, out)
SecondRemove ==
  \E a \in RemoveCalls(second.heap) :
    ReturnSecond("second_remove", a,
                 min_heap_remove(second.heap, mem, arena, second.out, a.hp, a.index, a.outp))

\* min_heap_clear(second heap)
SecondClear ==
  \E hp \in BOOLEAN :
    ReturnSecond("second_clear", Arg(hp, NoItem, 0, FALSE),
                 min_heap_clear(second.heap, mem, arena, second.out, hp))

NextShared ==
  \/ SetUp \/ CallInsert \/ CallRemove \/ CallClear
  \/ SecondInsert \/ SecondRemove \/ SecondClear

\* two heaps initialized one after the other from one arena
SpecShared == SharedInit /\ [][NextShared]_vars

\* A heap of its own beside the first: its structure, the memory of its own
\* arena, its out variable and the result of the last call made on it.
Twin(h, m, o, r) == [heap |-> h, mem |-> m, out |-> o, ret |-> r]

\* There is a freshly initialized heap beside the first.
TwinLive == second.heap.data # NULL

\* The capacity of the heap that is cleared; a heap of Points has two slots.
TwinCapOf(t) == IF t = "int" THEN TwinCap ELSE 2

\* The state before init of a heap that will be compared with a fresh one.
TwinInit ==
  /\ \E t \in Types : heap = min_heap_new(t, t)
  /\ mem = [a \in 1..MemWords |-> 0]
  /\ arena = <<>>
  /\ out = [k \in 1..heap.data_size |-> 0]
  /\ op = "min_heap_new"
  /\ arg = Arg(TRUE, NoItem, 0, FALSE)
  /\ ret = MIN_HEAP_OK
  /\ wr = {}
  /\ net = 0
  /\ log = <<>>
  /\ second = Twin(min_heap_new(TypeOf(heap), TypeOf(heap)), mem, out, MIN_HEAP_OK)
  /\ drain = NoDrain
  /\ trip = NoTrip

\* min_heap_init(heap, type, capacity, cmp_callback, arena)
TwinSetUp ==
  /\ heap.data = NULL
  /\ LET t == TypeOf(heap)
         r == min_heap_init(heap, mem, arena, out, TRUE, Sizeof(t), TwinCapOf(t), t,
                            TRUE, TRUE)
     IN Return("init", InitArg(TRUE, Sizeof(t), TwinCapOf(t), t, TRUE, TRUE), r, 0)

\* A call made on the first heap while there is no fresh heap beside it.
TwinBefore ==
  /\ heap.data # NULL /\ ~TwinLive
  /\ CallInsert \/ CallRemove \/ CallTop \/ CallFind

\* min_heap_clear(heap), and beside it a heap of the same element size,
\* capacity and comparator is initialized from a fresh arena of its own; the
\* caller's out variable holds the same for both.
TwinClear ==
  /\ heap.data # NULL
  /\ LET r == min_heap_clear(heap, mem, arena, out, TRUE)
         f == min_heap_init(min_heap_new(TypeOf(heap), heap.compare),
                            [a \in DOMAIN mem |-> 0], <<>>, out, TRUE,
                            heap.data_size, heap.capacity, heap.compare, TRUE, TRUE)
     IN /\ heap' = r.heap
        /\ mem' = r.st.m
        /\ arena' = r.arena
        /\ out' = r.out
        /\ op' = "clear"
        /\ arg' = Arg(TRUE, NoItem, 0, FALSE)
        /\ ret' = r.ret
        /\ wr' = r.st.wr
        /\ log' = r.st.log
        /\ net' = IF r.ret = MIN_HEAP_OK THEN 0 ELSE net
        /\ second' = Twin(f.heap, f.st.m, f.out, f.ret)
        /\ drain' = drain
        /\ trip' = trip

\* The same call returns on the first heap and on the fresh heap beside it.
ReturnBoth(name, a, r, f, n) ==
  /\ heap' = r.heap
  /\ mem' = r.st.m
  /\ arena' = r.arena
  /\ out' = r.out
  /\ op' = name
  /\ arg' = a
  /\ ret' = r.ret
  /\ wr' = r.st.wr
  /\ log' = r.st.log
  /\ net' = n
  /\ second' = Twin(f.heap, f.st.m, f.out, f.ret)
  /\ drain' = drain
  /\ trip' = trip

\* min_heap_insert(heap, item) on both heaps
TwinInsert ==
  /\ TwinLive
  /\ \E a \in InsertCalls(TypeOf(heap)) :
       LET r == min_heap_insert(heap, mem, arena, out, a.hp, a.item # NoItem, a.item)
           f == min_heap_insert(second.heap, second.mem, arena, second.out, a.hp,
                                a.item # NoItem, a.item)
       IN ReturnBoth("insert", a, r, f, IF r.ret = MIN_HEAP_OK THEN net + 1 ELSE net)

\* min_heap_remove(heap, index, out) on both heaps
TwinRemove ==
  /\ TwinLive
  /\ \E a \in RemoveCalls(heap) :
       LET r == min_heap_remove(heap, mem, arena, out, a.hp, a.index, a.outp)
           f == min_heap_remove(second.heap, second.mem, arena, second.out, a.hp,
                                a.index, a.outp)
       IN ReturnBoth("remove", a, r, f, IF r.ret = MIN_HEAP_OK THEN net - 1 ELSE net)

\* min_heap_top(heap, out) on both heaps
TwinTop ==
  /\ TwinLive
  /\ \E hp \in BOOLEAN, outp \in BOOLEAN :
       ReturnBoth("top", Arg(hp, NoItem, 0, outp),
                  min_heap_top(heap, mem, arena, out, hp, outp),
                  min_heap_top(second.heap, second.mem, arena, second.out, hp, outp), net)

\* min_heap_find(heap, item) on both heaps
TwinFind ==
  /\ TwinLive
  /\ \E a \in InsertCalls(TypeOf(heap)) :
       ReturnBoth("find", a,
                  min_heap_find(heap, mem, arena, out, a.hp, a.item # NoItem, a.item),
                  min_heap_find(second.heap, second.mem, arena, second.out, a.hp,
                                a.item # NoItem, a.item), net)

NextTwin ==
  \/ TwinSetUp \/ TwinBefore \/ TwinClear
  \/ TwinInsert \/ TwinRemove \/ TwinTop \/ TwinFind

\* a heap that is cleared, and from then on a fresh heap that gets the same calls
SpecTwin == TwinInit /\ [][NextTwin]_vars

\* The capacity of the heap whose slots are set by hand, and the words of its
\* buffer with the element-sized region behind it.
LayoutCapOf(t) == IF t = "int" THEN LayoutCap ELSE PointCap + 1
LayoutWords == MaxOf((LayoutCap + 1) * SizeofInt, (PointCap + 2) * SizeofPoint)

\* The state the layout tests start a call in: setUp has initialized the heap,
\* and the test has then set size and every slot of the buffer by hand, to an
\* array that need not be in heap order.
LayoutInit ==
  \E t \in Types :
    \E n \in 0..LayoutCapOf(t), slots \in [0..(LayoutCapOf(t) - 1) -> Items(t)] :
      LET o == [k \in 1..Sizeof(t) |-> 0]
          r == min_heap_init(min_heap_new(t, t), [a \in 1..LayoutWords |-> 0], <<>>, o,
                             TRUE, Sizeof(t), LayoutCapOf(t), t, TRUE, TRUE)
      IN /\ heap = [r.heap EXCEPT !.size = n]
         /\ mem = [a \in DOMAIN r.st.m |->
                     IF a >= r.heap.data /\ a < r.heap.data + LayoutCapOf(t) * Sizeof(t)
                     THEN slots[(a - r.heap.data) \div Sizeof(t)]
                               [((a - r.heap.data) % Sizeof(t)) + 1]
                     ELSE r.st.m[a]]
         /\ arena = r.arena
         /\ out = o
         /\ op = "setUp"
         /\ arg = Arg(TRUE, NoItem, 0, FALSE)
         /\ ret = MIN_HEAP_OK
         /\ wr = {}
         /\ net = n
         /\ log = <<>>
         /\ second = Second(min_heap_new(t, t), o, MIN_HEAP_OK)
         /\ drain = NoDrain
         /\ trip = NoTrip

\* Each layout test makes one call on the array it has set; every array is an
\* initial state, so one call from each covers every array a sequence reaches.
NextLayout == op = "setUp" /\ (CallInsert \/ CallRemove \/ CallFind)

\* insert, remove and find called on arrays set by hand
SpecLayout == LayoutInit /\ [][NextLayout]_vars

\* The example program: it builds a heap with the operations, and then runs
\* the loop  while (!min_heap_is_empty(&heap)) { if (min_heap_remove(&heap, 0,
\* &num) == MIN_HEAP_OK) printf(num); }  to its end. The heap is initialized
\* with the capacity TwinCapOf gives.
DrainBuild == drain.pc = "idle" /\ (TwinSetUp \/ CallInsert \/ CallRemove \/ CallClear)

\* The program reaches the loop; the stored elements are noted.
DrainStart ==
  /\ drain.pc = "idle"
  /\ drain' = [pc |-> "test", outs |-> <<>>, codes |-> <<>>,
               start |-> [i \in 1..heap.size |-> Load(mem, Addr(heap, i - 1), heap.data_size)]]
  /\ UNCHANGED <<heap, mem, arena, out, op, arg, ret, wr, net, log, second, trip>>

\* The loop condition, !min_heap_is_empty(&heap): it changes nothing, and op,
\* arg and ret keep the last call that could change the heap.
DrainTest ==
  /\ drain.pc = "test"
  /\ drain' = [drain EXCEPT !.pc = IF min_heap_is_empty(heap, mem, arena, out, TRUE).ret
                                   THEN "done" ELSE "body"]
  /\ UNCHANGED <<heap, mem, arena, out, op, arg, ret, wr, net, log, second, trip>>

\* The loop body: remove(&heap, 0, &num), and num is printed if it returned OK.
DrainBody ==
  /\ drain.pc = "body"
  /\ LET r == min_heap_remove(heap, mem, arena, out, TRUE, 0, TRUE)
     IN /\ drain' = [drain EXCEPT !.pc = "test",
                                  !.codes = Append(@, r.ret),
                                  !.outs = IF r.ret = MIN_HEAP_OK THEN Append(@, r.out) ELSE @]
        /\ heap' = r.heap
        /\ mem' = r.st.m
        /\ arena' = r.arena
        /\ out' = r.out
        /\ op' = "remove"
        /\ arg' = Arg(TRUE, NoItem, 0, TRUE)
        /\ ret' = r.ret
        /\ wr' = r.st.wr
        /\ log' = r.st.log
        /\ net' = IF r.ret = MIN_HEAP_OK THEN net - 1 ELSE net
        /\ second' = second
        /\ trip' = trip

NextDrain == DrainBuild \/ DrainStart \/ DrainTest \/ DrainBody

\* Once in the loop the program keeps running it: the loop is sequential code
\* with nothing to wait for, so both of its steps are weakly fair. The body
\* can be taken whenever the loop is at it (remove returns in every state and
\* its code is appended), so its fairness is written with drain.pc = "body"
\* for ENABLED <<DrainBody>>_drain.
DrainBodyFair == []<>(drain.pc # "body") \/ []<><<DrainBody>>_drain

SpecDrain == Init /\ [][NextDrain]_vars /\ WF_drain(DrainTest) /\ DrainBodyFair

\* A program that builds a heap with the operations and then calls insert,
\* find of the item inserted, and remove of the index found, in a row. The
\* heap is initialized with the capacity TwinCapOf gives.
TripBuild == trip.pc = "idle" /\ (TwinSetUp \/ CallInsert \/ CallRemove \/ CallClear)

\* The return of a call of the row: as Return, with the caller's notes tr.
TripReturn(name, a, r, n, tr) ==
  /\ heap' = r.heap
  /\ mem' = r.st.m
  /\ arena' = r.arena
  /\ out' = r.out
  /\ op' = name
  /\ arg' = a
  /\ ret' = r.ret
  /\ wr' = r.st.wr
  /\ log' = r.st.log
  /\ net' = n
  /\ second' = second
  /\ drain' = drain
  /\ trip' = tr

\* min_heap_insert(&heap, &x) that returns OK begins the row.
TripInsert ==
  /\ trip.pc = "idle"
  /\ \E x \in Items(TypeOf(heap)) :
       LET r == min_heap_insert(heap, mem, arena, out, TRUE, TRUE, x)
       IN /\ r.ret = MIN_HEAP_OK
          /\ TripReturn("insert", Arg(TRUE, x, 0, FALSE), r, net + 1,
                        [pc |-> "inserted", item |-> x, found |-> -1,
                         before |-> [i \in 1..heap.size |->
                                       Load(mem, Addr(heap, i - 1), heap.data_size)]])

\* i = min_heap_find(&heap, &x)
TripFind ==
  /\ trip.pc = "inserted"
  /\ LET r == min_heap_find(heap, mem, arena, out, TRUE, TRUE, trip.item)
     IN TripReturn("find", Arg(TRUE, trip.item, 0, FALSE), r, net,
                   [trip EXCEPT !.pc = "found", !.found = r.ret])

\* min_heap_remove(&heap, i, &out): i is converted to size_t
TripRemove ==
  /\ trip.pc = "found"
  /\ LET index == trip.found % SIZE_MOD
         r == min_heap_remove(heap, mem, arena, out, TRUE, index, TRUE)
     IN TripReturn("remove", Arg(TRUE, NoItem, index, TRUE), r,
                   IF r.ret = MIN_HEAP_OK THEN net - 1 ELSE net,
                   [trip EXCEPT !.pc = "removed"])

NextTrip == TripBuild \/ TripInsert \/ TripFind \/ TripRemove

SpecTrip == Init /\ [][NextTrip]_vars

\* init called with an arena whose memory has been used before
SpecInit == DirtyInit /\ [][CallInit]_vars

\* find called on the states the tests build by hand
SpecFind == PokeInit /\ [][CallFind]_vars


(* ------------------------- what the claims read ----------------------- *)

\* The heap came out of a successful init: it has a buffer.
Initialized == heap.data # NULL

\* The element at index i of the buffer of h in memory m.
ElemAt(h, m, i) == Load(m, Addr(h, i), h.data_size)

\* The stored elements, slots [0, size), as a sequence.
Stored(h, m) == [i \in 1..h.size |-> ElemAt(h, m, i - 1)]

\* How many times e occurs in a sequence of elements.
Count(s, e) == Cardinality({i \in DOMAIN s : s[i] = e})

\* The elements of a sequence.
Range(s) == {s[i] : i \in DOMAIN s}

\* The addresses of the blocks the arena has handed out.
Allocated == {w \in DOMAIN mem : \E b \in 1..Len(arena) :
                w >= arena[b].base /\ w < arena[b].base + arena[b].len}

\* The heap-order property of the slots [0, size) of h in memory m.
HeapOrdered(h, m) ==
  \A i \in 1..(h.size - 1) :
    Compare(h.compare, ElemAt(h, m, i), ElemAt(h, m, (i - 1) \div 2)) >= 0

(* ------------------------------ the claims ---------------------------- *)

\* C1: after a successful init, in every state any sequence of insert,
\* remove and clear calls (successful or not) leads to, every index i with
\* 1 <= i < size has compare(buffer[i], buffer[(i-1)/2]) >= 0.
C1_HeapOrder == Initialized => HeapOrdered(heap, mem)

\* C1 witness: a remove at index 3 of a heap of six has brought in the last
\* element, a child of index 2, and moved it up above the parent at index 1.
C1_Witness ==
  /\ Initialized /\ op = "remove" /\ ret = MIN_HEAP_OK /\ arg.index = 3
  /\ heap.size = 5
  /\ Addr(heap, 1) \in wr
  /\ Compare(heap.compare, ElemAt(heap, mem, 1), ElemAt(heap, mem, 3)) < 0

\* C2, as claimed: every address insert or remove writes, the temporary of
\* the swap at slot index capacity included, lies inside the block obtained
\* from the arena at init.
C2_WritesInsideBlock == wr \subseteq Allocated

\* C3: size equals the number of inserts that returned OK minus the number
\* of removes that returned OK (counted since size was last set to 0), and
\* 0 <= size <= capacity.
C3_SizeBookkeeping ==
  /\ heap.size = net
  /\ 0 <= heap.size
  /\ heap.size <= heap.capacity

\* C3 witness: a successful remove has left a heap that still holds elements.
C3_Witness ==
  /\ Initialized /\ op = "remove" /\ ret = MIN_HEAP_OK
  /\ net = 2 /\ heap.size = 2

\* The multiset of elements in after is the one in before with d more
\* occurrences of e (d is 1 or -1).
BagChange(before, after, e, d) ==
  \A x \in Range(before) \cup Range(after) \cup {e} :
    Count(after, x) = Count(before, x) + (IF x = e THEN d ELSE 0)

\* C4: whenever top is called with heap and out present on an initialized
\* heap with size > 0, it returns OK and the element it writes to out
\* compares <= every element stored in [0, size).
C4_TopCorrect ==
  [][(op' = "top" /\ arg'.hp /\ arg'.outp /\ Initialized /\ heap.size > 0)
       => /\ ret' = MIN_HEAP_OK
          /\ \A i \in 0..(heap.size - 1) :
               Compare(heap.compare, out', ElemAt(heap, mem, i)) <= 0]_vars

\* C4 witness: top has copied out the root of a heap of at least three that
\* also holds a strictly greater element.
C4_Witness ==
  /\ Initialized /\ op = "top" /\ ret = MIN_HEAP_OK /\ heap.size >= 3
  /\ out = ElemAt(heap, mem, 0)
  /\ \E i \in 1..(heap.size - 1) :
       Compare(heap.compare, out, ElemAt(heap, mem, i)) < 0

\* C5: remove with the heap present, a comparator and index < size returns
\* OK; with out present, out then holds exactly the element stored at
\* buffer[index] before the call; with out absent, out is left alone; and the
\* heap and the memory are left the same whether out is present or absent.
C5_RemoveCopyOut ==
  [][(op' = "remove" /\ arg'.hp /\ heap.compare # NULL_FN /\ arg'.index < heap.size)
       => /\ ret' = MIN_HEAP_OK
          /\ arg'.outp => out' = ElemAt(heap, mem, arg'.index)
          /\ ~arg'.outp => out' = out
          /\ LET other == min_heap_remove(heap, mem, arena, out, TRUE, arg'.index,
                                          ~arg'.outp)
             IN other.heap = heap' /\ other.st.m = mem']_vars

\* C5 witness: a remove at a middle index of a heap of at least three has
\* copied to out an element that differs from the one moved into its place.
C5_Witness ==
  /\ Initialized /\ op = "remove" /\ ret = MIN_HEAP_OK /\ arg.outp
  /\ arg.index > 0 /\ arg.index < heap.size /\ heap.size >= 2
  /\ out = ElemAt(heap, mem, heap.size)
  /\ out # ElemAt(heap, mem, arg.index)

\* C6: a remove that returns OK lowers size by one and leaves in [0, size)
\* the multiset of elements stored before the call minus exactly one
\* occurrence of the element that was at index.
C6_RemoveKeepsTheRest ==
  [][(op' = "remove" /\ ret' = MIN_HEAP_OK)
       => /\ heap'.size = heap.size - 1
          /\ BagChange(Stored(heap, mem), Stored(heap', mem'),
                       ElemAt(heap, mem, arg'.index), -1)]_vars

\* C6 witness: a remove of the root has left a heap of at least three that
\* holds two different elements.
C6_Witness ==
  /\ Initialized /\ op = "remove" /\ ret = MIN_HEAP_OK /\ arg.index = 0
  /\ heap.size >= 3
  /\ Cardinality(Range(Stored(heap, mem))) >= 2

\* C7: insert of a present item on an initialized heap with size < capacity
\* returns OK, raises size by exactly one and leaves in [0, size) the
\* multiset of elements stored before plus one copy of the item.
C7_InsertSuccess ==
  [][(op' = "insert" /\ arg'.hp /\ arg'.item # NoItem /\ Initialized
        /\ heap.size < heap.capacity)
       => /\ ret' = MIN_HEAP_OK
          /\ heap'.size = heap.size + 1
          /\ BagChange(Stored(heap, mem), Stored(heap', mem'), arg'.item, 1)]_vars

\* C7 witness: an insert into a heap of at least two has moved its item up
\* to the root.
C7_Witness ==
  /\ Initialized /\ op = "insert" /\ ret = MIN_HEAP_OK /\ heap.size >= 3
  /\ ElemAt(heap, mem, 0) = arg.item
  /\ heap.data \in wr
  /\ Cardinality(Range(Stored(heap, mem))) >= 2

\* C8: insert of a present item on an initialized heap with size = capacity
\* returns FULL and leaves size and every stored element unchanged.
C8_InsertWhenFull ==
  [][(op' = "insert" /\ arg'.hp /\ arg'.item # NoItem /\ Initialized
        /\ heap.size = heap.capacity)
       => /\ ret' = MIN_HEAP_FULL
          /\ heap'.size = heap.size
          /\ Stored(heap', mem') = Stored(heap, mem)]_vars

\* C8 witness: an insert on a full heap has returned FULL.
C8_Witness ==
  /\ Initialized /\ op = "insert" /\ ret = MIN_HEAP_FULL
  /\ heap.size = heap.capacity /\ arg.item # NoItem

\* C9: on an initialized heap with size = 0, top (heap and out present) and
\* remove (heap present) return EMPTY and change neither the heap structure,
\* nor the memory, nor the caller's out.
C9_Underflow ==
  [][/\ (op' = "top" /\ arg'.hp /\ arg'.outp /\ Initialized /\ heap.size = 0)
          => (ret' = MIN_HEAP_EMPTY /\ heap' = heap /\ mem' = mem /\ out' = out)
     /\ (op' = "remove" /\ arg'.hp /\ Initialized /\ heap.size = 0)
          => (ret' = MIN_HEAP_EMPTY /\ heap' = heap /\ mem' = mem /\ out' = out)]_vars

\* C9 witness: top has returned EMPTY on a cleared heap whose slot 0 still
\* holds an element different from the caller's out.
C9_Witness ==
  /\ Initialized /\ op = "top" /\ ret = MIN_HEAP_EMPTY /\ heap.size = 0
  /\ out # ElemAt(heap, mem, 0)

FindMatches(h, m, item) ==
  {i \in 0..(h.size - 1) : Compare(h.compare, item, ElemAt(h, m, i)) = 0}

\* The least element of a non-empty set of naturals.
Least(S) == CHOOSE i \in S : \A j \in S : i <= j

\* The words of the buffer of h.
Buffer(h) == {w \in DOMAIN mem : w >= h.data /\ w < h.data + h.capacity * h.data_size}

\* C11: from any reachable state clear returns OK and size() then returns 0,
\* and any sequence of insert, remove, top and find applied afterwards gives
\* the same return codes, out values and stored elements [0, size) as the same
\* sequence applied to a freshly initialized heap of the same capacity.
C11_ClearRoundTrip ==
  [][/\ op' = "clear"
          => /\ ret' = MIN_HEAP_OK
             /\ min_heap_size(heap', mem', arena', out', TRUE).ret = 0
     /\ TwinLive'
          => /\ ret' = second'.ret
             /\ out' = second'.out
             /\ heap'.size = second'.heap.size
             /\ Stored(heap', mem') = Stored(second'.heap, second'.mem)]_vars

\* C11 witness: after the clear a remove has succeeded on both heaps and
\* copied an element out, the heaps still hold an element, and the words behind
\* the stored elements differ between the cleared heap and the fresh one.
C11_Witness ==
  /\ TwinLive /\ op = "remove" /\ ret = MIN_HEAP_OK /\ arg.outp
  /\ heap.size >= 1
  /\ \E w \in Buffer(heap) : mem[w] # second.mem[w]

\* C12: find(heap, item) returns the smallest index i in [0, size) with
\* compare(item, buffer[i]) == 0, and -1 when there is no such index or when
\* heap, item, comparator or buffer is absent or size == 0; slots at or beyond
\* size are never matched.
C12_Find ==
  [][op' = "find"
       => ret' = IF /\ arg'.hp /\ arg'.item # NoItem
                    /\ heap.compare # NULL_FN /\ heap.data # NULL /\ heap.size > 0
                    /\ FindMatches(heap, mem, arg'.item) # {}
                 THEN Least(FindMatches(heap, mem, arg'.item))
                 ELSE -1]_vars

\* C12 witness: on an array like 7, 3, 6, not in heap order, find returned
\* index 1 for the item at index 1, which is also in a slot beyond size.
C12_Witness ==
  /\ op = "find" /\ ret = 1 /\ heap.size = 3
  /\ Compare(heap.compare, ElemAt(heap, mem, 1), ElemAt(heap, mem, 0)) < 0
  /\ Compare(heap.compare, arg.item, ElemAt(heap, mem, 0)) # 0
  /\ Compare(heap.compare, arg.item, ElemAt(heap, mem, 3)) = 0

C14_AbsentDefaults ==
  [][/\ op' = "size" /\ ~arg'.hp => ret' = 0
     /\ op' = "is_empty" => ret' = (IF arg'.hp THEN heap.size = 0 ELSE TRUE)
     /\ op' = "is_full" => ret' = (IF arg'.hp THEN heap.size >= heap.capacity ELSE TRUE)]_vars

\* C14 witness: isFull has answered true on a present heap that holds
\* capacity elements.
C14_Witness ==
  /\ op = "is_full" /\ arg.hp /\ ret = TRUE
  /\ Initialized /\ heap.size = heap.capacity

\* C15: size, isEmpty, isFull, top, peek and find leave size, capacity,
\* element size, comparator and every buffer slot unchanged, whatever they
\* return.
C15_QueriesPure ==
  [][op' \in {"size", "is_empty", "is_full", "top", "peek", "find"}
       => /\ heap' = heap
          /\ \A w \in Buffer(heap) : mem'[w] = mem[w]]_vars

\* C15 witness: top has copied the first element out of a heap of two.
C15_Witness ==
  /\ op = "top" /\ ret = MIN_HEAP_OK /\ heap.size = 2
  /\ out = ElemAt(heap, mem, 0)

C17_Isolation ==
  [][/\ op' \in {"insert", "remove", "clear"}
          => /\ second'.heap.size = second.heap.size
             /\ Stored(second'.heap, mem') = Stored(second.heap, mem)
     /\ op' \in {"second_insert", "second_remove", "second_clear"}
          => /\ heap'.size = heap.size
             /\ Stored(heap', mem') = Stored(heap, mem)]_vars

\* C18: init makes one allocation request to the arena, and no later
\* operation (insert, remove, clear, top, peek, find, size, isEmpty, isFull)
\* allocates from or releases to the arena.
C18_ArenaOnce ==
  [][/\ op' # "init" => arena' = arena
     /\ op' = "init"
          => arena' = IF ret' = MIN_HEAP_OK
                      THEN Append(arena, [base |-> heap'.data,
                                          len |-> heap'.capacity * heap'.data_size])
                      ELSE arena]_vars

\* C18 witness: the heap has been filled to its capacity by inserts and the
\* arena has handed out the one block of init.
C18_Witness ==
  /\ op = "insert" /\ ret = MIN_HEAP_OK /\ heap.size = heap.capacity
  /\ arena = <<[base |-> heap.data, len |-> heap.capacity * heap.data_size]>>

C20_Peek ==
  [][op' = "peek"
       => /\ ret' = NULL <=> (~arg'.hp \/ heap.size = 0)
          /\ ret' # NULL
               => /\ ret' = Addr(heap, 0)
                  /\ ret' \in Buffer(heap)
                  /\ LET t == min_heap_top(heap, mem, arena, out, TRUE, TRUE)
                     IN /\ t.ret = MIN_HEAP_OK
                        /\ Load(mem', ret', heap.data_size) = t.out]_vars

\* C20 witness: peek has returned the address of slot 0 of a heap of two
\* whose first element is not the value the out variable holds.
C20_Witness ==
  /\ op = "peek" /\ ret = heap.data /\ ret # NULL /\ heap.size = 2
  /\ Load(mem, ret, heap.data_size) # out

\* The swaps a call has logged.
IsSwap(e) == e.k = "swap"
Swaps(lg) == SelectSeq(lg, IsSwap)

\* The index of the slot of h at address a.
IndexOf(h, a) == (a - h.data) \div h.data_size

\* The swaps remove makes after the swap with the last element, in a call on
\* heap h that logged lg.
ReheapifySwaps(h, lg) == IF h.size > 1 THEN Tail(Swaps(lg)) ELSE Swaps(lg)

\* C21: after the swap with the last element a remove makes sift-up swaps, or
\* sift-down swaps, or no swap, never both; it sifts up only when
\* compare(moved-in element, removed element) < 0, down only when it is > 0,
\* and makes no swap when it is 0; the heap order holds on return.
C21_OneDirection ==
  [][(op' = "remove" /\ ret' = MIN_HEAP_OK /\ Initialized)
       => LET re == ReheapifySwaps(heap, log')
              ups == {k \in DOMAIN re : IndexOf(heap, re[k].b) < IndexOf(heap, re[k].a)}
              downs == {k \in DOMAIN re : IndexOf(heap, re[k].b) > IndexOf(heap, re[k].a)}
              cmp == Compare(heap.compare, ElemAt(heap, mem, heap.size - 1),
                             ElemAt(heap, mem, arg'.index))
          IN /\ ups \cup downs = DOMAIN re
             /\ ups = {} \/ downs = {}
             /\ ups # {} => cmp < 0
             /\ downs # {} => cmp > 0
             /\ cmp = 0 => re = <<>>
             /\ HeapOrdered(heap', mem')]_vars

\* C21 witness: a remove of the root of a heap of six has sifted the moved-in
\* element down two levels, to index 4.
C21_Witness ==
  /\ Initialized /\ op = "remove" /\ ret = MIN_HEAP_OK /\ arg.index = 0
  /\ heap.size = 5
  /\ {Addr(heap, 1), Addr(heap, 4)} \subseteq wr

\* The reference procedure of remove, on the array as a sequence: s with the
\* elements at indices i and j exchanged.
RefSwap(s, i, j) ==
  [k \in DOMAIN s |-> IF k = i + 1 THEN s[j + 1] ELSE IF k = j + 1 THEN s[i + 1] ELSE s[k]]

\* Sift up: while the node is strictly less than its parent, exchange them.
RECURSIVE RefSiftUp(_, _, _)
RefSiftUp(cmp, s, i) ==
  IF i # 0 /\ Compare(cmp, s[i + 1], s[((i - 1) \div 2) + 1]) < 0
  THEN RefSiftUp(cmp, RefSwap(s, i, (i - 1) \div 2), (i - 1) \div 2)
  ELSE s

\* Sift down: while there is a right child and the smaller child (the right
\* one when the two compare equal) is strictly less than the node, exchange
\* them; then one exchange with a left child that is strictly less.
RECURSIVE RefSiftDown(_, _, _)
RefSiftDown(cmp, s, i) ==
  LET l == 2 * i + 1
      r == 2 * i + 2
      c == IF Compare(cmp, s[l + 1], s[r + 1]) < 0 THEN l ELSE r
  IN IF r < Len(s) /\ Compare(cmp, s[c + 1], s[i + 1]) < 0
     THEN RefSiftDown(cmp, RefSwap(s, i, c), c)
     ELSE IF l < Len(s) /\ Compare(cmp, s[l + 1], s[i + 1]) < 0
     THEN RefSwap(s, i, l)
     ELSE s

\* Swap index with the last, truncate, then sift up, sift down or leave, as
\* the moved-in element compares with the removed one.
RefRemove(cmp, s, index) ==
  LET n == Len(s)
      t == SubSeq(RefSwap(s, index, n - 1), 1, n - 1)
      c == Compare(cmp, s[n], s[index + 1])
  IN IF index = n - 1 THEN t
     ELSE IF c < 0 THEN RefSiftUp(cmp, t, index)
     ELSE IF c > 0 THEN RefSiftDown(cmp, t, index)
     ELSE t

\* C22: for every array of length n <= capacity, heap-ordered or not, and
\* every index < n, the array remove leaves in slots [0, n-1) is the one the
\* reference procedure produces: swap index with n-1, truncate, then sift up
\* while strictly less than the parent, or sift down swapping with the smaller
\* child (the right one on a tie) while that child is strictly less, ending
\* with one left-only-child swap.
C22_RemoveLayout ==
  [][(op' = "remove" /\ ret' = MIN_HEAP_OK)
       => /\ heap'.size = heap.size - 1
          /\ Stored(heap', mem') = RefRemove(heap.compare, Stored(heap, mem), arg'.index)]_vars

\* C22 witness: the root of a heap of seven has been removed, the moved-in
\* element was greater than both children, and the array left differs from
\* the one plain swap-and-truncate gives: the moved-in element has gone down
\* to slot 2, below a root that is less.
C22_Witness ==
  /\ op = "remove" /\ ret = MIN_HEAP_OK /\ arg.index = 0 /\ heap.size = 6
  /\ HeapOrdered(heap, mem)
  /\ Compare(heap.compare, ElemAt(heap, mem, 0), ElemAt(heap, mem, 2)) < 0
  /\ Addr(heap, 2) \in wr


\* C23: remove performs the swap only if size > 1 and index is not the last
\* occupied slot; when index = size - 1 it makes no swap and no comparator
\* call, does not re-heapify, and leaves slots [0, size - 1) unchanged.
C23_LastSlot ==
  [][(op' = "remove" /\ ret' = MIN_HEAP_OK)
       => /\ (Swaps(log') # <<>> => heap.size > 1 /\ arg'.index # heap.size - 1)
          /\ arg'.index = heap.size - 1
               => /\ \A k \in DOMAIN log' : log'[k].k \notin {"swap", "compare"}
                  /\ Stored(heap', mem') = SubSeq(Stored(heap, mem), 1, heap.size - 1)]_vars


\* The indices from i up to the root, each followed by its parent.
RECURSIVE PathToRoot(_)
PathToRoot(i) == IF i = 0 THEN <<0>> ELSE <<i>> \o PathToRoot((i - 1) \div 2)

\* C24: insert writes the item at index size and swaps it with its parent
\* only while it is strictly less than the parent: the item comes to rest at
\* the first node of the path to the root whose parent is not greater (or at
\* the root), every ancestor it passed has moved one level down the path, and
\* no slot off the path has changed.
C24_InsertSiftUp ==
  [][(op' = "insert" /\ ret' = MIN_HEAP_OK)
       => LET p == PathToRoot(heap.size)
              x == arg'.item
              stops == {j \in 1..Len(p) :
                          j = Len(p) \/ Compare(heap.compare, x, ElemAt(heap, mem, p[j + 1])) >= 0}
              k == Least(stops)
              path == {p[j] : j \in 1..Len(p)}
          IN /\ log'[1] = [k |-> "copy_in", a |-> Addr(heap, heap.size), b |-> Addr(heap, heap.size)]
             /\ Len(Swaps(log')) = k - 1
             /\ ElemAt(heap', mem', p[k]) = x
             /\ \A j \in 1..(k - 1) : ElemAt(heap', mem', p[j]) = ElemAt(heap, mem, p[j + 1])
             /\ \A j \in (k + 1)..Len(p) : ElemAt(heap', mem', p[j]) = ElemAt(heap, mem, p[j])
             /\ \A i \in 0..(heap.capacity - 1) :
                  i \notin path => /\ ElemAt(heap', mem', i) = ElemAt(heap, mem, i)
                                   /\ \A w \in 0..(heap.data_size - 1) : Addr(heap, i) + w \notin wr'
             /\ (heap.size > 0 /\ Compare(heap.compare, x, ElemAt(heap, mem, p[2])) >= 0)
                  => ElemAt(heap', mem', heap.size) = x /\ Swaps(log') = <<>>]_vars

\* C24 witness: an insert into an array of six has swapped the item with its
\* parent and then with its grandparent, and the item is at the root.
C24_Witness ==
  /\ op = "insert" /\ ret = MIN_HEAP_OK
  /\ Len(Swaps(log)) = 2
  /\ heap.size = 7 /\ ElemAt(heap, mem, 0) = arg.item

\* A state of the other case of C24: an insert has left an item that equals
\* its parent at the index it was written to.
C24_Stays ==
  /\ op = "insert" /\ ret = MIN_HEAP_OK /\ heap.size > 1
  /\ Swaps(log) = <<>>
  /\ Compare(heap.compare, arg.item, ElemAt(heap, mem, MIN_HEAP_PARENT(heap.size - 1))) = 0


\* C25 (Drained is the state it ends in; C25_Drain is the claim): from any
\* reachable heap with size n, the loop "while not isEmpty:
\* remove(heap, 0, out)" ends, after exactly n removes that all return OK, and
\* the out values in order are non-decreasing under the comparator and are a
\* permutation of the n elements stored when the loop began.
Drained ==
  /\ drain.pc = "done"
  /\ Len(drain.codes) = Len(drain.start)
  /\ \A i \in DOMAIN drain.codes : drain.codes[i] = MIN_HEAP_OK
  /\ Len(drain.outs) = Len(drain.start)
  /\ \A i \in DOMAIN drain.outs : \A j \in DOMAIN drain.outs :
       i < j => Compare(heap.compare, drain.outs[i], drain.outs[j]) <= 0
  /\ \A x \in Range(drain.start) \cup Range(drain.outs) :
       Count(drain.outs, x) = Count(drain.start, x)

C25_Drain == (drain.pc = "test") ~> Drained

\* C25 witness: the loop has ended after draining a heap of four elements
\* that were not all equal.
C25_Witness ==
  /\ drain.pc = "done"
  /\ Len(drain.outs) = 4
  /\ drain.outs[1] # drain.outs[4]


RECURSIVE Log2Floor(_)
Log2Floor(n) == IF n <= 1 THEN 0 ELSE 1 + Log2Floor(n \div 2)

\* Each swap of s starts where the one before it ended.
Chained(s) == \A k \in 1..(Len(s) - 1) : s[k + 1].a = s[k].b

\* The swaps s are a sift-up of h from index: each goes to a smaller index,
\* and there are at most floor(log2(index + 1)) of them.
SiftsUp(h, s, index) ==
  /\ Chained(s)
  /\ s # <<>> => s[1].a = Addr(h, index)
  /\ \A k \in DOMAIN s : IndexOf(h, s[k].b) = MIN_HEAP_PARENT(IndexOf(h, s[k].a))
  /\ \A k \in DOMAIN s : IndexOf(h, s[k].b) < IndexOf(h, s[k].a)
  /\ Len(s) <= Log2Floor(index + 1)

\* The swaps s are a sift-down of h from index, with size elements left: each
\* goes to a greater index below size, and every swap but the last starts at
\* a node whose right child is below size.
SiftsDown(h, s, index, size) ==
  /\ Chained(s)
  /\ s # <<>> => s[1].a = Addr(h, index)
  /\ \A k \in DOMAIN s : /\ IndexOf(h, s[k].b) > IndexOf(h, s[k].a)
                         /\ IndexOf(h, s[k].b) < size
  /\ \A k \in 1..(Len(s) - 1) : MIN_HEAP_CHILD_R(IndexOf(h, s[k].a)) < size

\* Where the element moved into index by remove lies in the end.
RestsAt(h, s, index) == IF s = <<>> THEN index ELSE IndexOf(h, s[Len(s)].b)

\* What C27 says of insert and of find, and of remove but for where the
\* sift-down stops.
TerminatesWithin(down(_, _, _, _)) ==
  /\ (op' = "insert" /\ ret' = MIN_HEAP_OK) => SiftsUp(heap, Swaps(log'), heap.size)
  /\ (op' = "remove" /\ ret' = MIN_HEAP_OK)
       => LET re == ReheapifySwaps(heap, log')
              cmp == Compare(heap.compare, ElemAt(heap, mem, heap.size - 1),
                             ElemAt(heap, mem, arg'.index))
          IN IF cmp < 0 THEN SiftsUp(heap, re, arg'.index)
             ELSE IF cmp > 0 THEN /\ SiftsDown(heap, re, arg'.index, heap'.size)
                                  /\ down(heap, re, arg'.index, heap'.size)
             ELSE re = <<>>
  /\ op' = "find"
       => Cardinality({k \in DOMAIN log' : log'[k].k = "compare_item"}) <= heap.size

\* The sift-down has stopped at a node with no right child below size.
StopsAtLastLevel(h, s, index, size) == MIN_HEAP_CHILD_R(RestsAt(h, s, index)) >= size

\* The sift-down has stopped at a node with no right child below size, or at
\* one neither of whose children is less than it.
StopsInOrder(h, s, index, size) ==
  \/ StopsAtLastLevel(h, s, index, size)
  \/ LET at == RestsAt(h, s, index)
     IN \A c \in {MIN_HEAP_CHILD_L(at), MIN_HEAP_CHILD_R(at)} :
          Compare(heap'.compare, ElemAt(heap', mem', c), ElemAt(heap', mem', at)) >= 0

C28_AbsentBuffer ==
  heap.data = NULL
    => /\ heap.size = 0
       /\ op = "remove" => /\ ret \in {MIN_HEAP_NULL_POINTER, MIN_HEAP_EMPTY}
                           /\ log = <<>>
                           /\ wr = {}

\* C28 witness: remove has been called on a present heap whose init failed
\* to get a buffer, with the comparator set, and has returned EMPTY.
C28_Witness ==
  /\ heap.data = NULL /\ heap.compare # NULL_FN /\ heap.capacity > 0
  /\ op = "remove" /\ arg.hp /\ ret = MIN_HEAP_EMPTY


\* Address a is that of the slot of h with an index no greater than n and
\* below the capacity.
SlotUpTo(h, a, n) ==
  /\ a >= h.data
  /\ (a - h.data) % h.data_size = 0
  /\ IndexOf(h, a) <= n
  /\ IndexOf(h, a) < h.capacity

IsCompare(e) == e.k = "compare"

\* C29: the swap's scratch slot aside, every slot that insert, remove or find
\* reads, writes or passes to the comparator has an index no greater than the
\* size held at the start of the call and below capacity; the parent computed
\* for index 0 addresses nothing, and after remove's comparison of the
\* moved-in element with the removed one no index >= size is compared.
C29_SlotsInRange ==
  [][(op' \in {"insert", "remove", "find"})
       => /\ \A k \in DOMAIN log' : /\ SlotUpTo(heap, log'[k].a, heap.size)
                                    /\ SlotUpTo(heap, log'[k].b, heap.size)
          /\ \A k \in DOMAIN log' :
               log'[k].k \in {"swap", "compare"} /\ IndexOf(heap, log'[k].a) = 0
                 => IndexOf(heap, log'[k].b) # MIN_HEAP_PARENT(0)
          /\ op' = "remove"
               => LET cs == SelectSeq(log', IsCompare)
                  IN /\ \A k \in DOMAIN log' : /\ IndexOf(heap, log'[k].a) < heap.size
                                               /\ IndexOf(heap, log'[k].b) < heap.size
                     /\ \A k \in 2..Len(cs) : /\ IndexOf(heap, cs[k].a) < heap'.size
                                              /\ IndexOf(heap, cs[k].b) < heap'.size
          /\ op' = "find"
               => \A k \in DOMAIN log' : IndexOf(heap, log'[k].a) < heap.size]_vars

\* C29 witness: a remove has brought the moved-in element to the root by two
\* swaps with its parent, and has compared nothing with a parent of the root.
C29_Witness ==
  /\ op = "remove" /\ ret = MIN_HEAP_OK /\ heap.size = 6 /\ arg.index = 5
  /\ Len(Swaps(log)) = 3
  /\ log[Len(log)] = [k |-> "swap", a |-> Addr(heap, 2), b |-> Addr(heap, 0)]


\* The number of elements of s that cmp finds equal to x.
CountEqual(cmp, s, x) == Cardinality({i \in DOMAIN s : Compare(cmp, s[i], x) = 0})

\* C30: after insert(x) has returned OK, find(x) returns an index i >= 0 with
\* compare(x, buffer[i]) = 0; remove(heap, i, out) then returns OK, out
\* compares equal to x, and the stored elements are, up to the comparator's
\* equality, the multiset held before the insert.
C30_RoundTrip ==
  /\ trip.pc = "found"
       => /\ op = "find" /\ ret = trip.found
          /\ trip.found >= 0 /\ trip.found < heap.size
          /\ Compare(heap.compare, trip.item, ElemAt(heap, mem, trip.found)) = 0
  /\ trip.pc = "removed"
       => /\ op = "remove" /\ ret = MIN_HEAP_OK /\ arg.index = trip.found
          /\ Compare(heap.compare, out, trip.item) = 0
          /\ heap.size = Len(trip.before)
          /\ \A x \in Items(TypeOf(heap)) :
               CountEqual(heap.compare, Stored(heap, mem), x)
                 = CountEqual(heap.compare, trip.before, x)

\* C30 witness: the row has ended with the remove of an index other than 0,
\* on a heap that holds three elements as it did before the insert.
C30_Witness ==
  /\ trip.pc = "removed" /\ ret = MIN_HEAP_OK
  /\ trip.found > 0
  /\ heap.size = 3


\* Where the sift-down loop of a remove of index from heap h over memory m
\* ends: the loop is run on the array as the swap with the last element and
\* the decrement of size leave it.
LoopEnd(h, m, index) ==
  LET h1 == [h EXCEPT !.size = h.size - 1]
      s0 == min_heap_swap(h, St(m, {}), Addr(h, index), Addr(h, h.size - 1))
  IN DownHeapifyLoop(h1, s0, index)

\* The check of the left child after the loop succeeds: the final swap is made.
FinalSwap(h, m, index) ==
  LET d == LoopEnd(h, m, index)
  IN /\ d.l < h.size - 1
     /\ CompareAt(h, d.st.m, d.l, d.index) < 0

\* C31: in remove's sift-down on a heap-ordered array, whenever the swap
\* after the loop is executed, the right child of the node the loop ended at
\* is not below size and the slot swapped with, the variable child, is the
\* left child; that swap is the last thing the call does.
C31_FinalLeftSwap ==
  [][(/\ op' = "remove" /\ ret' = MIN_HEAP_OK
      /\ HeapOrdered(heap, mem)
      /\ arg'.index < heap.size - 1
      /\ Compare(heap.compare, ElemAt(heap, mem, heap.size - 1),
                 ElemAt(heap, mem, arg'.index)) > 0
      /\ FinalSwap(heap, mem, arg'.index))
       => LET d == LoopEnd(heap, mem, arg'.index)
          IN /\ MIN_HEAP_CHILD_R(d.index) >= heap'.size
             /\ d.child = MIN_HEAP_CHILD_L(d.index)
             /\ log'[Len(log')] = [k |-> "swap", a |-> Addr(heap, d.index),
                                   b |-> Addr(heap, MIN_HEAP_CHILD_L(d.index))]]_vars

\* C31 witness: the root of the heap-ordered array 0,0,1,0,1 has been
\* removed; the loop swapped the moved-in element with its left child at 1,
\* where only the left child 3 is below size, and the final swap exchanged 1
\* and 3.
C31_Witness ==
  /\ op = "remove" /\ ret = MIN_HEAP_OK /\ arg.index = 0 /\ heap.size = 4
  /\ Len(Swaps(log)) = 3
  /\ log[Len(log)] = [k |-> "swap", a |-> Addr(heap, 1), b |-> Addr(heap, 3)]
  /\ HeapOrdered(heap, mem)

====
